---- MODULE Spec2Model ----
(***************************************************************************)
(* A model of the request handlers of the fitness-club site (mainapp):     *)
(* member identity resolution from the signed member_auth cookie, the two  *)
(* login handlers, the two logouts, member registration, the UPI payment   *)
(* handlers, the "next" redirect helper and the category resolution chain. *)
(*                                                                         *)
(* Text is a sequence of tokens (a tuple of strings); a token stands for   *)
(* one character or for a run of lower-case letters and digits.            *)
(***************************************************************************)
EXTENDS Integers, Sequences, FiniteSets, TLC

VARIABLES members, session, cookie, payments, categories, classes, req, resp, inflight,
          issued

vars ==
    <<members, session, cookie, payments, categories, classes, req, resp, inflight, issued>>

(***************************************************************************)
(* Bounds of the model.                                                    *)
(***************************************************************************)
MaxMembers == 2
MaxPayments == 1
MaxPayloadLen == 2
MaxNextLen == 3
MaxClasses == 2
MaxSlugLen == 2
MaxWorkers == 2
MaxSegments == 3

(***************************************************************************)
(* Text helpers.                                                           *)
(***************************************************************************)
\* str.lower() on one token
LowerTok(c) == CASE c = "A" -> "a" [] c = "B" -> "b" [] OTHER -> c

\* str.lower()
Lower(s) == [i \in 1..Len(s) |-> LowerTok(s[i])]

\* str.strip(): drop the blanks at both ends
RECURSIVE LStrip(_)
LStrip(s) == IF s # <<>> /\ Head(s) = " " THEN LStrip(Tail(s)) ELSE s

RECURSIVE RStrip(_)
RStrip(s) == IF s # <<>> /\ s[Len(s)] = " " THEN RStrip(SubSeq(s, 1, Len(s) - 1)) ELSE s

Strip(s) == RStrip(LStrip(s))

\* the __iexact lookup: equality ignoring letter case
IExact(a, b) == Lower(a) = Lower(b)

\* EmailValidator of forms.EmailField: one "@" with text on both sides, no blank
IsEmail(s) ==
    /\ Cardinality({i \in 1..Len(s) : s[i] = "@"}) = 1
    /\ Len(s) >= 3
    /\ s[1] # "@"
    /\ s[Len(s)] # "@"
    /\ \A i \in 1..Len(s) : s[i] # " "

(***************************************************************************)
(* Member (models.py): rows are kept in insertion order, the primary key   *)
(* of a row is its position (ids are handed out 1, 2, ... and never        *)
(* reused; the model has no deletion).                                     *)
(***************************************************************************)
\* django.contrib.auth.hashers.make_password, as Member.set_password stores it
make_password(raw) == <<"pbkdf2_sha256", raw>>

\* Member.check_password
check_password(raw, encoded) == encoded = make_password(raw)

MemberIds(store) == 1..Len(store)

NoneVal == <<>>
Some(x) == <<x>>

\* QuerySet.first() of a filter, given the ids of the rows it keeps.  The
\* filters of the handlers keep at most one row, except those on Member by
\* email or username, where Meta.ordering ["-join_date"] puts the row that
\* joined last first.
First(hits) ==
    IF hits = {} THEN NoneVal
    ELSE Some(CHOOSE i \in hits : \A j \in hits : j <= i)

(***************************************************************************)
(* MemberRegistrationForm (forms.py).                                      *)
(***************************************************************************)
\* clean_email comparing the address as typed, case and all
clean_email_case_sensitive(store, raw) ==
    LET email == Strip(raw)
    IN  IF \E i \in MemberIds(store) : store[i].email = email
        THEN [ok |-> FALSE, value |-> email]
        ELSE [ok |-> TRUE, value |-> email]

\* clean_email: returns [ok, value]
clean_email(store, raw) ==
    LET email == Lower(Strip(raw))
    IN  IF \E i \in MemberIds(store) : IExact(store[i].email, email)
        THEN [ok |-> FALSE, value |-> email]
        ELSE [ok |-> TRUE, value |-> email]

\* clean_username comparing with __exact
clean_username_case_sensitive(store, raw) ==
    LET username == Strip(raw)
    IN  IF \E i \in MemberIds(store) : store[i].username = username
        THEN [ok |-> FALSE, value |-> username]
        ELSE [ok |-> TRUE, value |-> username]

\* clean_username: returns [ok, value]
clean_username(store, raw) ==
    LET username == Strip(raw)
    IN  IF \E i \in MemberIds(store) : IExact(store[i].username, username)
        THEN [ok |-> FALSE, value |-> username]
        ELSE [ok |-> TRUE, value |-> username]

\* clean: the two password fields must agree when both are given
clean_passwords(p1, p2) == ~(p1 # "" /\ p2 # "" /\ p1 # p2)

\* The unique=True of Member.username and Member.email: an exact match, as
\* the database compares the columns
UniqueViolation(store, username, email) ==
    \E i \in MemberIds(store) : store[i].username = username \/ store[i].email = email

\* The errors of form.is_valid(): the fields' own validation (required,
\* e-mail syntax), then clean_<field>, then clean(), then the model's
\* validate_unique on the cleaned values.
FormErrors(store, f) ==
    LET u == Strip(f.username)
        e == Strip(f.email)
    IN  (IF UniqueViolation(store, clean_username(store, u).value, clean_email(store, e).value)
         THEN {"unique"} ELSE {})
        \cup
        (IF u = <<>> THEN {"username_required"}
         ELSE IF ~clean_username(store, u).ok THEN {"username_taken"} ELSE {})
        \cup
        (IF Strip(f.full_name) = <<>> THEN {"full_name_required"} ELSE {})
        \cup
        (IF e = <<>> THEN {"email_required"}
         ELSE IF ~IsEmail(e) THEN {"email_invalid"}
         ELSE IF ~clean_email(store, e).ok THEN {"email_taken"} ELSE {})
        \cup
        (IF f.password1 = "" THEN {"password1_required"} ELSE {})
        \cup
        (IF f.password2 = "" THEN {"password2_required"} ELSE {})
        \cup
        (IF ~clean_passwords(f.password1, f.password2) THEN {"password_mismatch"} ELSE {})

\* MemberRegistrationForm.save: the row that member.save() inserts
save(f) ==
    [username  |-> Strip(f.username),
     full_name |-> Strip(f.full_name),
     email     |-> Lower(Strip(f.email)),
     password  |-> IF f.password1 # "" THEN make_password(f.password1) ELSE <<>>]

(***************************************************************************)
(* Numbers as text: str(member.id) and int(signed_val).                    *)
(***************************************************************************)
DigitTok == <<"0", "1", "2", "3", "4", "5", "6", "7", "8", "9">>

IsDigit(t) == \E i \in 1..Len(DigitTok) : DigitTok[i] = t

DigitVal(t) == (CHOOSE i \in 1..Len(DigitTok) : DigitTok[i] = t) - 1

\* str(n) for n >= 0
RECURSIVE IntToText(_)
IntToText(n) ==
    IF n < 10 THEN <<DigitTok[n + 1]>>
    ELSE IntToText(n \div 10) \o <<DigitTok[(n % 10) + 1]>>

RECURSIVE DigitsValue(_)
DigitsValue(s) ==
    IF s = <<>> THEN 0 ELSE 10 * DigitsValue(SubSeq(s, 1, Len(s) - 1)) + DigitVal(s[Len(s)])

\* int(s): an optional sign, then one or more digits; anything else is a
\* ValueError.  Returns [exc, value].
ParseInt(s) ==
    LET body == IF s # <<>> /\ Head(s) \in {"-", "+"} THEN Tail(s) ELSE s
    IN  IF body # <<>> /\ \A i \in 1..Len(body) : IsDigit(body[i])
        THEN [exc |-> "", value |-> IF Head(s) = "-" THEN 0 - DigitsValue(body)
                                                     ELSE DigitsValue(body)]
        ELSE [exc |-> "ValueError", value |-> 0]

(***************************************************************************)
(* Decimal amounts.  A decimal value is counted in thousandths, so 9.99 is *)
(* 9990; the price texts of the model carry at most three decimals.        *)
(***************************************************************************)
DecimalScale == 1000

\* the digits of a fraction, padded on the right to three places
FractionValue(digits) ==
    CASE Len(digits) = 0 -> 0
      [] Len(digits) = 1 -> 100 * DigitsValue(digits)
      [] Len(digits) = 2 -> 10 * DigitsValue(digits)
      [] OTHER -> DigitsValue(SubSeq(digits, 1, 3))

\* decimal.Decimal(text), as DecimalField.to_python applies it to the text
\* it is given: blanks at both ends dropped, digits with at most one point
\* and at least one digit; anything else is decimal.InvalidOperation, which
\* the field reports as ValidationError.  Returns [exc, value].
to_python(text) ==
    LET t == Strip(text)
        dots == {i \in 1..Len(t) : t[i] = "."}
        dot == IF dots = {} THEN Len(t) + 1 ELSE CHOOSE i \in dots : TRUE
        whole == SubSeq(t, 1, dot - 1)
        fraction == SubSeq(t, dot + 1, Len(t))
    IN  IF /\ Cardinality(dots) <= 1
           /\ \A i \in 1..Len(t) : i \notin dots => IsDigit(t[i])
           /\ Len(whole) + Len(fraction) >= 1
        THEN [exc |-> "", value |-> DecimalScale * DigitsValue(whole) + FractionValue(fraction)]
        ELSE [exc |-> "ValidationError", value |-> 0]

\* Decimal.quantize(Decimal("0.01")) under the default rounding of the
\* decimal module (ROUND_HALF_EVEN): the value a DecimalField of two
\* decimal places holds once the row is written and read back.
quantize(v) ==
    LET unit == DecimalScale \div 100
        low == (v \div unit) * unit
        rest == v - low
    IN  IF 2 * rest < unit THEN low
        ELSE IF 2 * rest > unit THEN low + unit
        ELSE IF (low \div unit) % 2 = 0 THEN low ELSE low + unit

(***************************************************************************)
(* The signed cookie.  A cookie is <<>> (absent) or <<[val, sig]>>; the    *)
(* signature of a value under a salt is what the signer computes from the  *)
(* secret key, the salt and the value, and nobody else can compute it.     *)
(***************************************************************************)
MEMBER_COOKIE_NAME == "member_auth"
MEMBER_COOKIE_SALT == "mainapp-member-auth-salt"
SECRET_KEY == "DJANGO_SECRET_KEY"

NoCookie == <<>>

\* signing.get_cookie_signer(salt=key + salt).sign(value), under a secret key
Signature(secret, key, salt, val) == <<"HMAC", secret, key, salt, val>>

\* response.set_signed_cookie(MEMBER_COOKIE_NAME, value, salt=MEMBER_COOKIE_SALT)
SignedCookie(val) ==
    <<[val |-> val, sig |-> Signature(SECRET_KEY, MEMBER_COOKIE_NAME, MEMBER_COOKIE_SALT, val)]>>

\* what a client that does not hold the secret key can put in the cookie
ForgedCookie(val) ==
    <<[val |-> val, sig |-> Signature("guess", MEMBER_COOKIE_NAME, MEMBER_COOKIE_SALT, val)]>>

\* request.get_signed_cookie(key, default=None, salt=salt): the default is
\* returned for a missing cookie and for a bad signature.  Returns [exc, value];
\* the value <<>> is None.
get_signed_cookie(c, key, salt) ==
    IF c = NoCookie THEN [exc |-> "", value |-> NoneVal]
    ELSE IF c[1].sig # Signature(SECRET_KEY, key, salt, c[1].val) THEN [exc |-> "", value |-> NoneVal]
    ELSE [exc |-> "", value |-> c[1].val]

\* Member.objects.filter(id=member_id).first()
MemberById(store, member_id) == First({i \in MemberIds(store) : i = member_id})

(***************************************************************************)
(* Resolving the current member.  A resolver returns [exc, member]: exc is *)
(* the exception that escapes it ("" when none does), member is <<>>       *)
(* (None) or <<id>>.                                                       *)
(***************************************************************************)
Returned(m) == [exc |-> "", member |-> m]
Raised(e) == [exc |-> e, member |-> NoneVal]

\* MemberAuthMiddleware.__call__: the value it leaves in request.member
MemberAuthMiddleware(store, c) ==
    LET got == get_signed_cookie(c, MEMBER_COOKIE_NAME, MEMBER_COOKIE_SALT)
    IN  IF got.exc # "" THEN Returned(NoneVal)                \* except Exception
        ELSE IF got.value = <<>> THEN Returned(NoneVal)       \* if signed_val:
        ELSE LET n == ParseInt(got.value)
             IN  IF n.exc # "" THEN Returned(NoneVal)         \* except Exception
                 ELSE Returned(MemberById(store, n.value))

\* get_current_member with the ValueError of int() not caught
get_current_member_uncaught(store, c, request_member) ==
    IF request_member # NoneVal THEN Returned(request_member)
    ELSE LET got == get_signed_cookie(c, MEMBER_COOKIE_NAME, MEMBER_COOKIE_SALT)
         IN  IF got.value = <<>> THEN Returned(NoneVal)
             ELSE LET n == ParseInt(got.value)
                  IN  IF n.exc # "" THEN Raised(n.exc)
                      ELSE Returned(MemberById(store, n.value))

\* get_current_member(request), request.member being what the middleware set
get_current_member(store, c, request_member) ==
    IF request_member # NoneVal THEN Returned(request_member)
    ELSE LET got == get_signed_cookie(c, MEMBER_COOKIE_NAME, MEMBER_COOKIE_SALT)
         IN  IF got.exc # "" THEN Returned(NoneVal)           \* except Exception
             ELSE IF got.value = <<>> THEN Returned(NoneVal)  \* if signed_val:
             ELSE LET n == ParseInt(got.value)
                  IN  IF n.exc \in {"ValueError", "TypeError"} THEN Returned(NoneVal)
                      ELSE IF n.exc # "" THEN Returned(NoneVal)   \* outer except Exception
                      ELSE Returned(MemberById(store, n.value))

\* The member a view sees: the middleware runs first (settings MIDDLEWARE),
\* then the view calls get_current_member.
CurrentMember(store, c) ==
    LET mw == MemberAuthMiddleware(store, c)
    IN  IF mw.exc # "" THEN mw ELSE get_current_member(store, c, mw.member)

\* current_member with request.member absent: getattr's default
current_member_no_attribute(store, c, request_member) == Returned(NoneVal)

\* context_processors.current_member: it resolves the cookie into the
\* local site_member, and what it hands to the templates as "site_member"
\* is request.member
current_member(store, c, request_member) ==
    LET got == get_signed_cookie(c, MEMBER_COOKIE_NAME, MEMBER_COOKIE_SALT)
        site_member == IF got.exc # "" \/ got.value = <<>> THEN NoneVal
                       ELSE IF ParseInt(got.value).exc # "" THEN NoneVal
                       ELSE MemberById(store, ParseInt(got.value).value)
    IN  Returned(request_member)

\* The value of "site_member" in a template: the middleware runs first,
\* the context processor when the page is rendered.
SiteMember(store, c) ==
    LET mw == MemberAuthMiddleware(store, c)
    IN  IF mw.exc # "" THEN mw ELSE current_member(store, c, mw.member)

(***************************************************************************)
(* URLs: urlparse, reverse and redirect.                                   *)
(***************************************************************************)
SpecialToks == {"/", ":", ".", "?", "=", "#", "@", " ", "&", "-", "+"}

\* a token that starts with a letter
IsAlphaTok(t) == t \notin SpecialToks /\ ~IsDigit(t)

\* urllib.parse.scheme_chars: letters, digits and "+-."
IsSchemeTok(t) == IsAlphaTok(t) \/ IsDigit(t) \/ t \in {"+", "-", "."}

\* str.find: the least index holding one of the tokens, 0 when there is none
Find(s, toks, from) ==
    LET hits == {i \in from..Len(s) : s[i] \in toks}
    IN  IF hits = {} THEN 0 ELSE CHOOSE i \in hits : \A j \in hits : i <= j

\* urllib.parse.urlparse, as far as the scheme and the network location:
\* the scheme is the text before the first ":" when it starts with a letter
\* and holds scheme characters only; the netloc follows a leading "//" and
\* runs to the next "/", "?" or "#".
urlparse(url) ==
    LET colon == Find(url, {":"}, 1)
        has_scheme == /\ colon > 1
                      /\ IsAlphaTok(url[1])
                      /\ \A i \in 1..(colon - 1) : IsSchemeTok(url[i])
        scheme == IF has_scheme THEN Lower(SubSeq(url, 1, colon - 1)) ELSE <<>>
        rest == IF has_scheme THEN SubSeq(url, colon + 1, Len(url)) ELSE url
        slashes == Len(rest) >= 2 /\ rest[1] = "/" /\ rest[2] = "/"
        delim == Find(rest, {"/", "?", "#"}, 3)
        netloc == IF ~slashes THEN <<>>
                  ELSE IF delim = 0 THEN SubSeq(rest, 3, Len(rest))
                  ELSE SubSeq(rest, 3, delim - 1)
    IN  [scheme |-> scheme, netloc |-> netloc]

\* The routes of mainapp/urls.py that take no argument: name and path.
RouteNames ==
    {"home", "about", "classes", "classes_all", "equipment", "features", "gallery",
     "price", "testimonial", "contact", "signup", "register", "logout",
     "member_logout", "profile", "plan_registration", "staff_login"}

RoutePath(name) ==
    CASE name = "home" -> <<"/">>
      [] name = "about" -> <<"/", "about", "/">>
      [] name = "classes" -> <<"/", "classes", "/">>
      [] name = "classes_all" -> <<"/", "classes", "/", "all", "/">>
      [] name = "equipment" -> <<"/", "equipment", "/">>
      [] name = "features" -> <<"/", "features", "/">>
      [] name = "gallery" -> <<"/", "gallery", "/">>
      [] name = "price" -> <<"/", "price", "/">>
      [] name = "testimonial" -> <<"/", "testimonial", "/">>
      [] name = "contact" -> <<"/", "contact", "/">>
      [] name = "signup" -> <<"/", "signup", "/">>
      [] name = "register" -> <<"/", "register", "/">>
      [] name = "logout" -> <<"/", "logout", "/">>
      [] name = "member_logout" -> <<"/", "member-logout", "/">>
      [] name = "profile" -> <<"/", "profile", "/">>
      [] name = "plan_registration" -> <<"/", "registration", "/">>
      [] name = "staff_login" -> <<"/", "staff-login", "/">>

\* django.urls.reverse(name) with no arguments.  Returns [exc, url].
reverse(to) ==
    IF Len(to) = 1 /\ to[1] \in RouteNames
    THEN [exc |-> "", url |-> RoutePath(to[1])]
    ELSE [exc |-> "NoReverseMatch", url |-> <<>>]

StartsWith(s, prefix) == Len(s) >= Len(prefix) /\ SubSeq(s, 1, Len(prefix)) = prefix

\* django.shortcuts.redirect(to) -> resolve_url(to): "./" and "../" go
\* through as they are, a route name is reversed, and any other text is
\* taken as a URL when it holds a "/" or a "."; what is left raises
\* NoReverseMatch.  Returns [exc, url].
redirect(to) ==
    IF StartsWith(to, <<".", "/">>) \/ StartsWith(to, <<".", ".", "/">>)
    THEN [exc |-> "", url |-> to]
    ELSE IF reverse(to).exc = "" THEN reverse(to)
    ELSE IF Find(to, {"/"}, 1) = 0 /\ Find(to, {"."}, 1) = 0 THEN reverse(to)
    ELSE [exc |-> "", url |-> to]

\* _redirect_with_next with the test of the network location left out
_redirect_with_next_scheme_only(default_name, get_next, post_next) ==
    LET next_url == IF get_next # <<>> THEN get_next ELSE post_next
    IN  IF next_url # <<>> /\ urlparse(next_url).scheme = <<>>
        THEN redirect(next_url)
        ELSE redirect(<<default_name>>)

\* _redirect_with_next(default_name, request): get_next and post_next are
\* request.GET.get("next") and request.POST.get("next"), <<>> when the
\* parameter is absent or empty (both are false to the `or` and the `if`).
_redirect_with_next(default_name, get_next, post_next) ==
    LET next_url == IF get_next # <<>> THEN get_next ELSE post_next
        parsed == urlparse(next_url)
    IN  IF next_url # <<>> /\ parsed.scheme = <<>> /\ parsed.netloc = <<>>
        THEN redirect(next_url)
        ELSE redirect(<<default_name>>)

(***************************************************************************)
(* The administrator credential store (django.contrib.auth) and the        *)
(* catalogue.  User 1 is the superuser of create_temp_superuser, user 2 a  *)
(* non-staff user entered through the admin console.                       *)
(***************************************************************************)
AuthUsers ==
    <<[username |-> <<"cfitness">>, email |-> <<"chinmypendke", "@", "gmail.com">>,
       password |-> make_password("cfitness"), is_staff |-> TRUE],
      [username |-> <<"a">>, email |-> <<"a", "@", "x.io">>,
       password |-> make_password("p"), is_staff |-> FALSE]>>

\* django.contrib.auth.authenticate(request, username=..., password=...):
\* the user of that exact username, when the password verifies
authenticate(username, password) ==
    First({i \in 1..Len(AuthUsers) :
              /\ AuthUsers[i].username = username
              /\ check_password(password, AuthUsers[i].password)})

\* FitnessClass rows and Plan rows of the site; a row's id is its position.
\* FitnessClass.price is a DecimalField of two decimal places (500000 is 500.00),
\* Plan.price a CharField of up to 30 characters that the console takes as
\* typed: a whole number, a number of three decimals, a number with a unit.
SiteClasses ==
    <<[name |-> <<"yoga">>, category |-> Some(<<"yoga">>), category_fk |-> NoneVal,
       price |-> 500000]>>

SitePlans ==
    <<[name |-> <<"gold">>, price |-> <<"9", "9", "9">>],
      [name |-> <<"day">>, price |-> <<"9", ".", "9", "9", "5">>],
      [name |-> <<"flex">>, price |-> <<"9", "9", "9", "/", "mo">>]>>

\* get_object_or_404(Model, pk=id)
get_object_or_404(rows, pk) == First({i \in 1..Len(rows) : i = pk})

(***************************************************************************)
(* Requests and responses.                                                 *)
(***************************************************************************)
NoArgs == [none |-> TRUE]

Request(handler, method, args) == [handler |-> handler, method |-> method, args |-> args]

Response(status, location, template, errors) ==
    [status |-> status, location |-> location, template |-> template,
     errors |-> errors, cookie_op |-> "none", member |-> NoneVal, rows |-> <<>>]

\* HttpResponseRedirect(resolve_url(to)), or the 500 of an escaping exception
RedirectResponse(r) ==
    IF r.exc = "" THEN Response("redirect", r.url, "", {})
    ELSE Response("error", <<>>, "", {r.exc})

render(template, errors) == Response("render", <<>>, template, errors)

(***************************************************************************)
(* The handlers (views.py).  A handler is an operator from the request and *)
(* the state it reads to its outcome; the actions below apply them.        *)
(***************************************************************************)
\* registration_view: [created, response]; created is <<>> or <<row>>
registration_view(store, method, f) ==
    IF method = "POST"
    THEN LET errors == FormErrors(store, f)
              member == save(f)
         IN  IF errors = {}
             THEN IF UniqueViolation(store, member.username, member.email)
                  THEN [created |-> NoneVal,
                        response |-> Response("error", <<>>, "", {"IntegrityError"})]
                  ELSE [created |-> Some(member),
                        response |-> RedirectResponse(redirect(<<"signup">>))]
             ELSE [created |-> NoneVal, response |-> render("registration.html", errors)]
    ELSE [created |-> NoneVal, response |-> render("registration.html", {})]

\* Member.objects.filter(email__iexact=s).first()
\*   or Member.objects.filter(username__iexact=s).first()
LookupMember(store, s) ==
    LET by_email == First({i \in MemberIds(store) : IExact(store[i].email, s)})
        by_username == First({i \in MemberIds(store) : IExact(store[i].username, s)})
    IN  IF by_email # NoneVal THEN by_email ELSE by_username

\* LoginPost with the password verified against any member's hash
LoginPost_any_password(store, username, password, target) ==
    LET username_or_email == Strip(username)
        user == authenticate(username_or_email, password)
        member == LookupMember(store, username_or_email)
    IN  IF user # NoneVal
        THEN [user |-> user, member |-> NoneVal, response |-> RedirectResponse(target)]
        ELSE IF member # NoneVal
                /\ \E i \in MemberIds(store) : check_password(password, store[i].password)
        THEN [user |-> NoneVal, member |-> member, response |-> RedirectResponse(target)]
        ELSE [user |-> NoneVal, member |-> NoneVal,
              response |-> render("signup.html", {"Invalid username/email or password."})]

\* LoginPost with member authentication tried before administrator authentication
LoginPost_member_first(store, username, password, target) ==
    LET username_or_email == Strip(username)
        user == authenticate(username_or_email, password)
        member == LookupMember(store, username_or_email)
    IN  IF member # NoneVal /\ check_password(password, store[member[1]].password)
        THEN [user |-> NoneVal, member |-> member, response |-> RedirectResponse(target)]
        ELSE IF user # NoneVal
        THEN [user |-> user, member |-> NoneVal, response |-> RedirectResponse(target)]
        ELSE [user |-> NoneVal, member |-> NoneVal,
              response |-> render("signup.html", {"Invalid username/email or password."})]

\* The POST branch shared by login_view and member_login_view, `target`
\* being the redirect each of them computes: [user, member, response], where
\* user is the administrator logged in to the session (<<>> when none) and
\* member the member whose cookie is set (<<>> when none).
LoginPost(store, username, password, target) ==
    LET username_or_email == Strip(username)
        user == authenticate(username_or_email, password)
        member == LookupMember(store, username_or_email)
    IN  IF user # NoneVal
        THEN [user |-> IF target.exc = "" THEN user ELSE NoneVal, member |-> NoneVal,
              response |-> RedirectResponse(target)]
        ELSE IF member # NoneVal /\ check_password(password, store[member[1]].password)
        THEN [user |-> NoneVal, member |-> IF target.exc = "" THEN member ELSE NoneVal,
              response |-> RedirectResponse(target)]
        ELSE [user |-> NoneVal, member |-> NoneVal,
              response |-> render("signup.html", {"Invalid username/email or password."})]

LoginGet == [user |-> NoneVal, member |-> NoneVal, response |-> render("signup.html", {})]

\* login_view (route staff-login/)
login_view(store, method, a) ==
    IF method = "POST"
    THEN LoginPost(store, a.username, a.password,
                   _redirect_with_next("home", a.get_next, a.post_next))
    ELSE LoginGet

\* member_login_view (route signup/)
member_login_view(store, method, a) ==
    IF method = "POST"
    THEN LoginPost(store, a.username, a.password, redirect(<<"home">>))
    ELSE LoginGet

\* Member.objects.filter(email=request.user.email).first() for the user of
\* the session, when that user is authenticated and not staff
MemberOfUser(store, sess) ==
    IF sess # NoneVal /\ ~AuthUsers[sess[1]].is_staff
    THEN First({i \in MemberIds(store) : store[i].email = AuthUsers[sess[1]].email})
    ELSE NoneVal

\* profile_view with the member of the cookie preferred to the member of the session
profile_view_cookie_first(store, c, sess) ==
    LET current == CurrentMember(store, c).member
        member == IF current # NoneVal THEN current ELSE MemberOfUser(store, sess)
    IN  IF member = NoneVal THEN RedirectResponse(redirect(<<"member_login">>))
        ELSE [render("profile.html", {}) EXCEPT !.member = member]

\* profile_view (route profile/): the response, the member of the page in
\* its field member
profile_view(store, c, sess) ==
    LET by_email == MemberOfUser(store, sess)
        member == IF by_email # NoneVal THEN by_email ELSE CurrentMember(store, c).member
    IN  IF member = NoneVal THEN RedirectResponse(redirect(<<"member_login">>))
        ELSE [render("profile.html", {}) EXCEPT !.member = member]

\* The payment handlers.  kind is "class" or "plan", rows the table the id is
\* looked up in, price the amount of a row; [payment, response] with payment
\* <<>> or <<row>>.
PaymentNext(kind, id) ==
    <<"?", "next", "=", "/", "book", "/", kind, "/">> \o IntToText(id) \o <<"/">>

\* book_payment with the object looked up before the member is resolved
book_payment_lookup_first(store, c, kind, rows, method, id, upi_ref) ==
    LET member == CurrentMember(store, c).member
        obj == get_object_or_404(rows, id)
    IN  IF obj = NoneVal
        THEN [payment |-> NoneVal, response |-> Response("not_found", <<>>, "", {})]
        ELSE IF member = NoneVal
        THEN [payment |-> NoneVal,
              response |-> RedirectResponse(
                  redirect(reverse(<<"signup">>).url \o PaymentNext(kind, id)))]
        ELSE [payment |-> NoneVal, response |-> render("payment_page.html", {})]

book_payment(store, c, kind, rows, method, id, upi_ref) ==
    LET member == CurrentMember(store, c).member
        obj == get_object_or_404(rows, id)
        price == IF kind = "class" THEN [exc |-> "", value |-> rows[id].price]
                 ELSE to_python(rows[id].price)
        amount == [exc |-> price.exc, value |-> quantize(price.value)]
    IN  IF member = NoneVal
        THEN [payment |-> NoneVal,
              response |-> RedirectResponse(
                  redirect(reverse(<<"signup">>).url \o PaymentNext(kind, id)))]
        ELSE IF obj = NoneVal
        THEN [payment |-> NoneVal, response |-> Response("not_found", <<>>, "", {})]
        ELSE IF method # "POST"
        THEN [payment |-> NoneVal, response |-> render("payment_page.html", {})]
        ELSE IF upi_ref = NoneVal
        THEN [payment |-> NoneVal, response |-> Response("error", <<>>, "", {"IntegrityError"})]
        ELSE IF amount.exc # ""
        THEN [payment |-> NoneVal, response |-> Response("error", <<>>, "", {"ValidationError"})]
        ELSE [payment |-> Some([member |-> member[1],
                                fitness_class |-> IF kind = "class" THEN obj ELSE NoneVal,
                                plan |-> IF kind = "plan" THEN obj ELSE NoneVal,
                                amount |-> amount.value,
                                upi_ref |-> upi_ref[1],
                                confirmed |-> FALSE]),
              response |-> render("payment_page.html", {})]

\* book_class_payment (route book/class/<int:class_id>/)
book_class_payment(store, c, rows, method, class_id, upi_ref) ==
    book_payment(store, c, "class", rows, method, class_id, upi_ref)

\* book_plan_payment (route book/plan/<int:plan_id>/)
book_plan_payment(store, c, rows, method, plan_id, upi_ref) ==
    book_payment(store, c, "plan", rows, method, plan_id, upi_ref)

(***************************************************************************)
(* Category resolution (classes_by_category).                              *)
(***************************************************************************)
\* the __icontains lookup: kw occurs in text, ignoring letter case
IContains(text, kw) ==
    \E i \in 1..(Len(text) - Len(kw) + 1) :
        Lower(SubSeq(text, i, i + Len(kw) - 1)) = Lower(kw)

\* slug.replace("-", " ").split(): the maximal runs of tokens other than "-"
Keywords(slug) ==
    {SubSeq(slug, i, j) : <<i, j>> \in
        {<<i, j>> \in (1..Len(slug)) \X (1..Len(slug)) :
            /\ i <= j
            /\ \A k \in i..j : slug[k] # "-"
            /\ (i = 1 \/ slug[i - 1] = "-")
            /\ (j = Len(slug) \/ slug[j + 1] = "-")}}

\* Category.objects.filter(slug=slug).first()
CategoryBySlug(cats, slug) == First({i \in 1..Len(cats) : cats[i].slug = slug})

\* .filter(category_fk=category_obj)
ByForeignKey(cls, cat) == {i \in 1..Len(cls) : cls[i].category_fk = Some(cat)}

\* .filter(category__iexact=category_obj.name)
ByLegacyName(cls, name) ==
    {i \in 1..Len(cls) : cls[i].category # NoneVal /\ IExact(cls[i].category[1], name)}

\* .filter(q).distinct(), q the disjunction over the keywords of
\* Q(category__icontains=kw) | Q(name__icontains=kw); the empty Q() that no
\* keyword leaves filters nothing out.
ByKeywords(cls, keywords) ==
    IF keywords = {} THEN {i \in 1..Len(cls) : TRUE}
    ELSE {i \in 1..Len(cls) : \E kw \in keywords :
             \/ (cls[i].category # NoneVal /\ IContains(cls[i].category[1], kw))
             \/ IContains(cls[i].name, kw)}

\* classes_by_category with the legacy matches added to the linked classes
classes_by_category_with_legacy(cats, cls, slug) ==
    LET category_obj == CategoryBySlug(cats, slug)
    IN  IF category_obj # NoneVal
        THEN ByForeignKey(cls, category_obj[1])
             \cup ByLegacyName(cls, cats[category_obj[1]].name)
        ELSE ByKeywords(cls, Keywords(slug))

\* classes_by_category going on to the keyword search when the category has
\* neither linked classes nor classes of its name
classes_by_category_keywords_last(cats, cls, slug) ==
    LET category_obj == CategoryBySlug(cats, slug)
    IN  IF category_obj # NoneVal /\ ByForeignKey(cls, category_obj[1]) # {}
        THEN ByForeignKey(cls, category_obj[1])
        ELSE IF category_obj # NoneVal /\ ByLegacyName(cls, cats[category_obj[1]].name) # {}
        THEN ByLegacyName(cls, cats[category_obj[1]].name)
        ELSE ByKeywords(cls, Keywords(slug))

\* classes_by_category: the ids of the classes of the page, as a set
classes_by_category(cats, cls, slug) ==
    LET category_obj == CategoryBySlug(cats, slug)
    IN  IF category_obj # NoneVal
        THEN IF ByForeignKey(cls, category_obj[1]) # {}
             THEN ByForeignKey(cls, category_obj[1])
             ELSE ByLegacyName(cls, cats[category_obj[1]].name)
        ELSE ByKeywords(cls, Keywords(slug))

\* The collating order of the tokens of names
TokOrder == <<" ", "-", "A", "B", "a", "b">>
TokRank(t) == CHOOSE i \in 1..Len(TokOrder) : TokOrder[i] = t

RECURSIVE TextLE(_, _)
TextLE(x, y) ==
    IF x = <<>> THEN TRUE
    ELSE IF y = <<>> THEN FALSE
    ELSE IF Head(x) = Head(y) THEN TextLE(Tail(x), Tail(y))
    ELSE TokRank(Head(x)) < TokRank(Head(y))

\* .order_by("name"): the sequences the database may return for a set of
\* rows; rows of equal name come in either order.
order_by_name(cls, ids) ==
    {q \in [1..Cardinality(ids) -> ids] :
        /\ \A i, j \in 1..Cardinality(ids) : i # j => q[i] # q[j]
        /\ \A i \in 1..(Cardinality(ids) - 1) : TextLE(cls[q[i]].name, cls[q[i + 1]].name)}

(***************************************************************************)
(* Inputs.                                                                 *)
(***************************************************************************)
TextsUpTo(alphabet, n) == UNION {[1..k -> alphabet] : k \in 0..n}

EmailA == <<"a", "@", "x.io">>
EmailB == <<"b", "@", "x.io">>
EmailC == <<"c", "@", "x.io">>

Form(username, email, p1, p2) ==
    [username |-> username, full_name |-> <<"n">>, email |-> email,
     password1 |-> p1, password2 |-> p2]

\* the registrations of the site model: a username may be another
\* member's e-mail address, or differ from another username in case only,
\* and an e-mail address may be that of an administrator
SiteForms ==
    {Form(<<"a">>, EmailA, "p", "p"),
     Form(EmailA, EmailB, "q", "q"),
     Form(<<"A">>, <<"A", "@", "x.io">>, "q", "q"),
     Form(<<"a">>, EmailB, "p", "q"),
     Form(<<"c">>, AuthUsers[1].email, "q", "q")}

\* the registrations of the registration model: padded and malformed input too
RegForms ==
    {Form(u, e, pp[1], pp[2]) :
        u \in {<<"a">>, <<"A">>, <<" ", "b">>, EmailA, <<>>},
        e \in {EmailA, <<"A", "@", "x.io">>, <<" ", "b", "@", "x.io">>, EmailC, <<"a", "b">>},
        pp \in {<<"p", "p">>, <<"p", "q">>}}

\* the registrations of the payment model
PayForms == {Form(<<"a">>, EmailA, "p", "p"), Form(<<"b">>, EmailB, "q", "q")}

BlankForm == Form(<<>>, <<>>, "", "")

BookingPath == <<"/", "book", "/", "class", "/", "1", "/">>
EvilUrl == <<"/", "/", "evil.com">>

LoginArgs(username, password, get_next, post_next) ==
    [username |-> username, password |-> password,
     get_next |-> get_next, post_next |-> post_next]

NoLoginArgs == LoginArgs(<<>>, "", <<>>, <<>>)

\* identifier and password of the login requests of the site model
Credentials ==
    ({<<"a">>, <<"A", " ">>, EmailA, <<"B", "@", "x.io">>} \X {"p", "q"})
    \cup {<<<<"cfitness">>, "cfitness">>, <<<<"cfitness">>, "p">>}

StaffLoginInputs ==
    {LoginArgs(c[1], c[2], n[1], n[2]) :
        c \in Credentials,
        n \in {<<<<>>, <<>>>>, <<BookingPath, <<>>>>, <<EvilUrl, BookingPath>>}}

SignupInputs == {LoginArgs(c[1], c[2], BookingPath, <<>>) : c \in Credentials}

\* the login requests of the payment model
PayLoginInputs ==
    {LoginArgs(c[1], c[2], <<>>, <<>>) :
        c \in {<<<<"a">>, "p">>, <<<<"b">>, "q">>, <<<<"a">>, "q">>}}

(***************************************************************************)
(* The site: initial state and one action per request.                     *)
(***************************************************************************)
NoRequest == Request("", "", NoArgs)
NoResponse == Response("none", <<>>, "", {})

Init ==
    /\ members = <<>>
    /\ session = NoneVal
    /\ cookie = NoCookie
    /\ payments = <<>>
    /\ inflight = <<>>
    /\ issued = {}
    /\ categories = <<>>
    /\ classes = SiteClasses
    /\ req = NoRequest
    /\ resp = NoResponse

\* POST or GET registration/
Register(method, f) ==
    \E out \in {registration_view(members, method, f)} :
        /\ out.created # NoneVal => Len(members) < MaxMembers
        /\ members' = IF out.created # NoneVal THEN Append(members, out.created[1])
                      ELSE members
        /\ req' = Request("registration_view", method, f)
        /\ resp' = out.response
        /\ UNCHANGED <<session, cookie, payments, categories, classes, inflight, issued>>

\* What a login outcome does to the session and to the browser's cookie:
\* login(request, user) for an administrator, set_signed_cookie for a member.
ApplyLogin(handler, method, a, out) ==
    /\ session' = IF out.user # NoneVal THEN out.user ELSE session
    /\ cookie' = IF out.member # NoneVal THEN SignedCookie(IntToText(out.member[1]))
                 ELSE cookie
    /\ req' = Request(handler, method, a)
    /\ resp' = [out.response EXCEPT
                   !.cookie_op = IF out.member # NoneVal THEN "set" ELSE "none",
                   !.member = out.member]
    /\ issued' = IF out.member # NoneVal
                 THEN issued \cup {SignedCookie(IntToText(out.member[1]))}
                 ELSE issued
    /\ UNCHANGED <<members, payments, categories, classes, inflight>>

\* POST or GET staff-login/
LoginView(method, a) ==
    ApplyLogin("login_view", method, a, login_view(members, method, a))

\* POST or GET signup/
MemberLoginView(method, a) ==
    ApplyLogin("member_login_view", method, a, member_login_view(members, method, a))

\* logout_view: logout(request) flushes the session
LogoutView ==
    /\ session' = NoneVal
    /\ req' = Request("logout_view", "GET", NoArgs)
    /\ resp' = RedirectResponse(redirect(<<"home">>))
    /\ UNCHANGED <<members, cookie, payments, categories, classes, inflight, issued>>

\* member_logout_view tearing the session down as well
MemberLogoutView_flush ==
    /\ cookie' = NoCookie
    /\ session' = NoneVal
    /\ req' = Request("member_logout_view", "GET", NoArgs)
    /\ resp' = [RedirectResponse(redirect(<<"home">>)) EXCEPT !.cookie_op = "delete"]
    /\ UNCHANGED <<members, payments, categories, classes, inflight, issued>>

\* member_logout_view (routes logout/ and member-logout/): delete_cookie
MemberLogoutView ==
    /\ cookie' = NoCookie
    /\ req' = Request("member_logout_view", "GET", NoArgs)
    /\ resp' = [RedirectResponse(redirect(<<"home">>)) EXCEPT !.cookie_op = "delete"]
    /\ UNCHANGED <<members, session, payments, categories, classes, inflight, issued>>

\* The client sends again a member_auth cookie the server issued to it
\* earlier and that a logout has since deleted from the browser: the client
\* keeps what it was sent.
ReplayCookie(c) ==
    /\ cookie = NoCookie
    /\ c \in issued
    /\ cookie' = c
    /\ req' = Request("ReplayCookie", "", NoArgs)
    /\ resp' = NoResponse
    /\ UNCHANGED <<members, session, payments, categories, classes, inflight, issued>>

\* GET profile/
ProfileView ==
    /\ req' = Request("profile_view", "GET", NoArgs)
    /\ resp' = profile_view(members, cookie, session)
    /\ UNCHANGED <<members, session, cookie, payments, categories, classes, inflight, issued>>

\* The client replaces its member_auth cookie by one it made up.
ForgeCookie(val) ==
    /\ cookie' = ForgedCookie(val)
    /\ req' = NoRequest
    /\ resp' = NoResponse
    /\ UNCHANGED <<members, session, payments, categories, classes, inflight, issued>>

Next ==
    \/ \E f \in SiteForms : Register("POST", f)
    \/ Register("GET", BlankForm)
    \/ \E a \in StaffLoginInputs : LoginView("POST", a)
    \/ LoginView("GET", NoLoginArgs)
    \/ \E a \in SignupInputs : MemberLoginView("POST", a)
    \/ MemberLoginView("GET", NoLoginArgs)
    \/ LogoutView
    \/ MemberLogoutView
    \/ ProfileView

Spec == Init /\ [][Next]_vars

(***************************************************************************)
(* The registration model: registration/ alone, with a wider set of forms. *)
(***************************************************************************)
NextReg ==
    \/ \E f \in RegForms : Register("POST", f)
    \/ Register("GET", BlankForm)

SpecReg == Init /\ [][NextReg]_vars

(***************************************************************************)
(* The concurrent registration model: up to MaxWorkers registration        *)
(* requests are served at a time.  A request validates its form against    *)
(* the store (form.is_valid()) and inserts its row (form.save()) in two    *)
(* steps, each a transaction of its own; inflight holds the forms that     *)
(* were found valid and whose row is not inserted yet.                     *)
(***************************************************************************)
RaceForms ==
    {Form(<<"a">>, EmailA, "p", "p"),
     Form(<<"A">>, EmailB, "p", "p"),
     Form(<<"a">>, EmailC, "q", "q"),
     Form(<<"b">>, EmailA, "q", "q")}

Remove(s, k) == SubSeq(s, 1, k - 1) \o SubSeq(s, k + 1, Len(s))

\* registration_view up to form.is_valid()
RegisterValidate(f) ==
    /\ Len(inflight) < MaxWorkers
    /\ req' = Request("registration_view", "POST", f)
    /\ \E errors \in {FormErrors(members, f)} :
          IF errors = {}
          THEN /\ inflight' = Append(inflight, f)
               /\ resp' = NoResponse
          ELSE /\ inflight' = inflight
               /\ resp' = render("registration.html", errors)
    /\ UNCHANGED <<members, session, cookie, payments, categories, classes, issued>>

\* registration_view from form.save() on: the INSERT, which the unique
\* indexes of the table may refuse, and the redirect
RegisterSave(k) ==
    /\ k \in 1..Len(inflight)
    /\ req' = Request("registration_view", "POST", inflight[k])
    /\ inflight' = Remove(inflight, k)
    /\ \E member \in {save(inflight[k])} :
          IF UniqueViolation(members, member.username, member.email)
          THEN /\ members' = members
               /\ resp' = Response("error", <<>>, "", {"IntegrityError"})
          ELSE /\ Len(members) < MaxMembers
               /\ members' = Append(members, member)
               /\ resp' = RedirectResponse(redirect(<<"signup">>))
    /\ UNCHANGED <<session, cookie, payments, categories, classes, issued>>

NextRace ==
    \/ \E f \in RaceForms : RegisterValidate(f)
    \/ \E k \in 1..MaxWorkers : RegisterSave(k)

SpecRace == Init /\ [][NextRace]_vars

(***************************************************************************)
(* The payment model: two registrations, member login and logout, a client *)
(* that may forge its cookie, and the two payment handlers.                *)
(***************************************************************************)
ApplyPayment(handler, method, id, upi_ref, out) ==
    /\ out.payment # NoneVal => Len(payments) < MaxPayments
    /\ payments' = IF out.payment # NoneVal THEN Append(payments, out.payment[1])
                   ELSE payments
    /\ req' = Request(handler, method, [id |-> id, upi_ref |-> upi_ref])
    /\ resp' = out.response
    /\ UNCHANGED <<members, session, cookie, categories, classes, inflight, issued>>

\* GET or POST book/class/<class_id>/
BookClassPayment(method, class_id, upi_ref) ==
    ApplyPayment("book_class_payment", method, class_id, upi_ref,
                 book_class_payment(members, cookie, classes, method, class_id, upi_ref))

\* GET or POST book/plan/<plan_id>/
BookPlanPayment(method, plan_id, upi_ref) ==
    ApplyPayment("book_plan_payment", method, plan_id, upi_ref,
                 book_plan_payment(members, cookie, SitePlans, method, plan_id, upi_ref))

\* request.GET.get("next") for the URL the browser requests: the text after
\* "?next=" (the URLs of the model carry no other parameter), "" without it
QueryNext(url) ==
    LET marks == {i \in 1..(Len(url) - 2) :
                     url[i] = "?" /\ url[i + 1] = "next" /\ url[i + 2] = "="}
    IN  IF marks = {} THEN <<>>
        ELSE SubSeq(url, (CHOOSE i \in marks : TRUE) + 3, Len(url))

\* the path of a URL: the text before "?"
UrlPath(url) ==
    LET marks == {i \in 1..Len(url) : url[i] = "?"}
    IN  IF marks = {} THEN url ELSE SubSeq(url, 1, (CHOOSE i \in marks : TRUE) - 1)

\* the credentials a visitor sent to the login page types
RedirectedCredentials == {<<<<"b">>, "q">>, <<<<"cfitness">>, "cfitness">>, <<<<"b">>, "p">>}

\* The browser follows a redirect to the login page and the visitor posts
\* the login form to the URL of that page, query string included; the URL
\* configuration gives signup/ to member_login_view.
LoginAfterRedirect(username, password) ==
    /\ resp.status = "redirect"
    /\ UrlPath(resp.location) = reverse(<<"signup">>).url
    /\ MemberLoginView("POST", LoginArgs(username, password, QueryNext(resp.location), <<>>))

\* The administrator ticks "confirmed" on a payment in the admin console
\* (UpiPaymentAdmin); the console takes an administrator's session.
AdminConfirm(i) ==
    /\ i \in 1..Len(payments)
    /\ ~payments[i].confirmed
    /\ payments' = [payments EXCEPT ![i].confirmed = TRUE]
    /\ req' = Request("UpiPaymentAdmin", "POST", [id |-> i, upi_ref |-> NoneVal])
    /\ resp' = NoResponse
    /\ UNCHANGED <<members, session, cookie, categories, classes, inflight, issued>>

\* the ids a booking URL may carry: the rows of the catalogue and an id of no row
BookingIds == 1..(Len(SitePlans) + 1)

UpiRefs == {NoneVal, Some(<<"r">>)}

NextPay ==
    \/ \E f \in PayForms : Register("POST", f)
    \/ \E a \in PayLoginInputs : MemberLoginView("POST", a)
    \/ MemberLogoutView
    \/ \E val \in {<<"1">>, <<"2">>} : ForgeCookie(val)
    \/ \E m \in {"GET", "POST"}, id \in BookingIds, r \in UpiRefs : BookClassPayment(m, id, r)
    \/ \E m \in {"GET", "POST"}, id \in BookingIds, r \in UpiRefs : BookPlanPayment(m, id, r)
    \/ \E i \in 1..MaxPayments : AdminConfirm(i)
    \/ \E c \in RedirectedCredentials : LoginAfterRedirect(c[1], c[2])
    \/ \E m \in 1..MaxMembers : ReplayCookie(SignedCookie(IntToText(m)))

SpecPay == Init /\ [][NextPay]_vars

(***************************************************************************)
(* The cookie model: the resolvers applied to every cookie a request may   *)
(* carry (absent, forged, signed but malformed, signed for an id of no     *)
(* row, signed for a member) over stores of 0..MaxMembers members.         *)
(***************************************************************************)
PayloadToks == {"0", "1", "2", "3", "x", "-"}

Payloads == TextsUpTo(PayloadToks, MaxPayloadLen)

Cookies ==
    {NoCookie} \cup {SignedCookie(v) : v \in Payloads} \cup {ForgedCookie(v) : v \in Payloads}

\* the store after n registrations
StoreOf(n) ==
    [i \in 1..n |-> save(Form(<<"u">> \o IntToText(i), <<"u">> \o IntToText(i) \o <<"@", "x.io">>,
                              "p", "p"))]

InitCookie ==
    /\ members \in {StoreOf(n) : n \in 0..MaxMembers}
    /\ cookie \in Cookies
    /\ session = NoneVal
    /\ payments = <<>>
    /\ inflight = <<>>
    /\ issued = {}
    /\ categories = <<>>
    /\ classes = SiteClasses
    /\ req = NoRequest
    /\ resp = NoResponse

Resolved(handler, r) ==
    /\ req' = Request(handler, "GET", NoArgs)
    /\ resp' = [Response(IF r.exc = "" THEN "resolved" ELSE "error", <<>>, "",
                         IF r.exc = "" THEN {} ELSE {r.exc})
                   EXCEPT !.member = r.member]
    /\ UNCHANGED <<members, session, cookie, payments, categories, classes, inflight, issued>>

\* the middleware runs on the request
Middleware == Resolved("MemberAuthMiddleware", MemberAuthMiddleware(members, cookie))

\* a view calls get_current_member, behind the middleware or without it
GetCurrentMember(with_middleware) ==
    Resolved("get_current_member",
             IF with_middleware THEN CurrentMember(members, cookie)
             ELSE get_current_member(members, cookie, NoneVal))

\* a template is rendered: the context processor runs behind the middleware
ContextProcessor == Resolved("current_member", SiteMember(members, cookie))

NextCookie ==
    \/ Middleware
    \/ \E w \in BOOLEAN : GetCurrentMember(w)
    \/ ContextProcessor

SpecCookie == InitCookie /\ [][NextCookie]_vars

(***************************************************************************)
(* The redirect model: _redirect_with_next over every pair of "next"       *)
(* values of up to MaxNextLen tokens.                                      *)
(***************************************************************************)
NextTexts == TextsUpTo({"home", "/", ":", "."}, MaxNextLen)

InitRedirect ==
    /\ req \in {Request("_redirect_with_next", "POST", LoginArgs(<<>>, "", g, p)) :
                   g \in NextTexts, p \in NextTexts}
    /\ resp = NoResponse
    /\ members = <<>>
    /\ session = NoneVal
    /\ cookie = NoCookie
    /\ payments = <<>>
    /\ inflight = <<>>
    /\ issued = {}
    /\ categories = <<>>
    /\ classes = SiteClasses

RedirectWithNext ==
    /\ resp' = RedirectResponse(_redirect_with_next("home", req.args.get_next, req.args.post_next))
    /\ UNCHANGED <<members, session, cookie, payments, categories, classes, req, inflight, issued>>

SpecRedirect == InitRedirect /\ [][RedirectWithNext]_vars

(***************************************************************************)
(* The category model: classes_by_category over every catalogue of up to   *)
(* MaxClasses classes and every slug of up to MaxSlugLen tokens.           *)
(***************************************************************************)
CategoryA == [name |-> <<"A">>, slug |-> <<"a">>]

ClassRows(cats) ==
    {[name |-> n, category |-> c, category_fk |-> fk, price |-> 500000] :
        n \in {<<"a">>, <<"B">>},
        c \in {NoneVal, Some(<<"a">>), Some(<<"A", "b">>)},
        fk \in {NoneVal} \cup {Some(i) : i \in 1..Len(cats)}}

\* the slugs the route classes/<slug:slug>/ accepts: not empty
Slugs == TextsUpTo({"a", "b", "-"}, MaxSlugLen) \ {<<>>}

InitCat ==
    /\ categories \in {<<>>, <<CategoryA>>}
    /\ classes \in UNION {[1..k -> ClassRows(categories)] : k \in 0..MaxClasses}
    /\ req \in {Request("classes_by_category", "GET", [slug |-> slug]) : slug \in Slugs}
    /\ resp = NoResponse
    /\ members = <<>>
    /\ session = NoneVal
    /\ cookie = NoCookie
    /\ payments = <<>>
    /\ inflight = <<>>
    /\ issued = {}

\* GET classes/<slug>/
ClassesByCategory ==
    /\ \E q \in order_by_name(classes, classes_by_category(categories, classes, req.args.slug)) :
           resp' = [render("classes.html", {}) EXCEPT !.rows = q]
    /\ UNCHANGED <<members, session, cookie, payments, categories, classes, req, inflight, issued>>

NextCat == ClassesByCategory

SpecCat == InitCat /\ [][NextCat]_vars

(***************************************************************************)
(* Properties.                                                             *)
(***************************************************************************)
CookieVerifies ==
    /\ cookie # NoCookie
    /\ cookie[1].sig = Signature(SECRET_KEY, MEMBER_COOKIE_NAME, MEMBER_COOKIE_SALT, cookie[1].val)

CookieNamesMember ==
    /\ CookieVerifies
    /\ ParseInt(cookie[1].val).exc = ""
    /\ ParseInt(cookie[1].val).value \in MemberIds(members)

\* C1: resolving the current member never raises; when the cookie is absent,
\* fails verification, is no integer or names no Member row, the middleware
\* and get_current_member yield no member, and a member they yield is the
\* one whose id the verified cookie holds.
C1_ResolveNeverRaises ==
    req.handler \in {"MemberAuthMiddleware", "get_current_member"} =>
        /\ resp.status # "error"
        /\ ~CookieNamesMember => resp.member = NoneVal
        /\ resp.member # NoneVal => resp.member = Some(ParseInt(cookie[1].val).value)

\* a signed cookie whose value is no integer was resolved to no member
C1_Witness ==
    /\ req.handler = "get_current_member"
    /\ CookieVerifies
    /\ ParseInt(cookie[1].val).exc = "ValueError"
    /\ resp.status = "resolved"
    /\ resp.member = NoneVal

EffectiveNext == IF req.args.get_next # <<>> THEN req.args.get_next ELSE req.args.post_next

IsAbsolute(url) == urlparse(url).scheme # <<>> \/ urlparse(url).netloc # <<>>

\* C2: _redirect_with_next takes "next" from the query string, else from the
\* POST body; when that value is absent or empty, or has a scheme or a
\* network location, the redirect goes to the default destination, so a
\* redirect to any other place is to a "next" with neither.
C2_RedirectOnlyRelative ==
    (req.handler = "_redirect_with_next" /\ resp.status # "none") =>
        /\ (EffectiveNext = <<>> \/ IsAbsolute(EffectiveNext)) =>
               (resp.status = "redirect" /\ resp.location = RoutePath("home"))
        /\ (resp.status = "redirect" /\ resp.location # RoutePath("home")) =>
               /\ EffectiveNext # <<>>
               /\ ~IsAbsolute(EffectiveNext)
               /\ resp.location \in {EffectiveNext, reverse(EffectiveNext).url}

\* a query-string "next" with a host and a relative "next" in the body: the default
C2_Witness ==
    /\ req.handler = "_redirect_with_next"
    /\ urlparse(req.args.get_next).netloc # <<>>
    /\ req.args.post_next = <<"/", "home">>
    /\ resp.status = "redirect"
    /\ resp.location = RoutePath("home")

IsLogin == req.handler \in {"login_view", "member_login_view"} /\ req.method = "POST"

\* C3: a login with identifier s (as the handler reads it, blanks at the ends
\* trimmed) and password p sets the member cookie for member m only if m's
\* email or username equals s ignoring case and p verifies against m's own
\* hash; with B's email and a password that is A's and not B's, no cookie is
\* set for A or for B.
C3_NoCrossMatch ==
    IsLogin =>
        LET s == Strip(req.args.username)
            p == req.args.password
        IN  /\ resp.cookie_op = "set" =>
                /\ resp.member # NoneVal
                /\ resp.member[1] \in MemberIds(members)
                /\ cookie = SignedCookie(IntToText(resp.member[1]))
                /\ \/ IExact(members[resp.member[1]].email, s)
                   \/ IExact(members[resp.member[1]].username, s)
                /\ check_password(p, members[resp.member[1]].password)
            /\ \A A, B \in MemberIds(members) :
                   (/\ A # B
                    /\ IExact(members[B].email, s)
                    /\ check_password(p, members[A].password)
                    /\ ~check_password(p, members[B].password))
                   => ~(resp.cookie_op = "set" /\ resp.member[1] \in {A, B})

\* B's email with A's password, A's username being that very address: refused
C3_Witness ==
    /\ IsLogin
    /\ \E A, B \in MemberIds(members) :
           /\ A # B
           /\ IExact(members[B].email, Strip(req.args.username))
           /\ IExact(members[A].username, Strip(req.args.username))
           /\ check_password(req.args.password, members[A].password)
           /\ ~check_password(req.args.password, members[B].password)
    /\ resp.status = "render"
    /\ resp.cookie_op = "none"

\* C4: a login POST tries administrator authentication first and member
\* authentication only when that fails: an administrator login sets the
\* session and no member cookie, a member login sets the member cookie and
\* leaves the session as it was, and when both fail session and cookie are
\* as they were and the login page is rendered again with an error.
C4_AdminFirst ==
    [][(req'.handler \in {"login_view", "member_login_view"} /\ req'.method = "POST") =>
          LET s == Strip(req'.args.username)
              p == req'.args.password
              m == LookupMember(members, s)
          IN  IF authenticate(s, p) # NoneVal
              THEN /\ session' = authenticate(s, p)
                   /\ cookie' = cookie
                   /\ resp'.cookie_op = "none"
                   /\ resp'.status = "redirect"
              ELSE IF m # NoneVal /\ check_password(p, members[m[1]].password)
              THEN /\ session' = session
                   /\ cookie' = SignedCookie(IntToText(m[1]))
                   /\ resp'.cookie_op = "set"
                   /\ resp'.status = "redirect"
              ELSE /\ session' = session
                   /\ cookie' = cookie
                   /\ resp'.cookie_op = "none"
                   /\ resp'.status = "render"
                   /\ resp'.template = "signup.html"
                   /\ resp'.errors # {}]_vars

\* credentials that are an administrator's and a member's at once: the
\* session is set and no cookie
C4_Witness ==
    /\ IsLogin
    /\ authenticate(Strip(req.args.username), req.args.password) # NoneVal
    /\ LookupMember(members, Strip(req.args.username)) # NoneVal
    /\ check_password(req.args.password,
                      members[LookupMember(members, Strip(req.args.username))[1]].password)
    /\ session = authenticate(Strip(req.args.username), req.args.password)
    /\ cookie = NoCookie
    /\ resp.cookie_op = "none"

\* C5: member logout deletes the member_auth cookie and leaves the
\* administrator session as it was; administrator logout tears the session
\* down and leaves the member_auth cookie as it was.
C5_LogoutIndependent ==
    [][/\ req'.handler = "member_logout_view" =>
              (cookie' = NoCookie /\ session' = session /\ resp'.cookie_op = "delete")
       /\ req'.handler = "logout_view" =>
              (session' = NoneVal /\ cookie' = cookie /\ resp'.cookie_op = "none")]_vars

\* after a member logout the administrator is still logged in
C5_Witness ==
    /\ req.handler = "member_logout_view"
    /\ cookie = NoCookie
    /\ session # NoneVal

LoginWithNext(kind, id) ==
    <<"/", "signup", "/", "?", "next", "=", "/", "book", "/", kind, "/">>
        \o IntToText(id) \o <<"/">>

\* C6: a GET or POST to a payment handler with no resolvable member answers
\* with a redirect to the login route carrying next=/book/class/<id>/ (resp.
\* /book/plan/<id>/) for the id requested, whether or not a row has that id,
\* and creates no UpiPayment row.
C6_UnauthenticatedPayment ==
    [][\A kind \in {"class", "plan"} :
          (/\ req'.handler = IF kind = "class" THEN "book_class_payment"
                             ELSE "book_plan_payment"
           /\ ~CookieNamesMember)
          => /\ resp'.status = "redirect"
             /\ resp'.location = LoginWithNext(kind, req'.args.id)
             /\ payments' = payments]_vars

\* a POST for a class id of no row, with a forged cookie naming a member
C6_Witness ==
    /\ req.handler = "book_class_payment"
    /\ req.method = "POST"
    /\ req.args.id \notin 1..Len(classes)
    /\ cookie = ForgedCookie(<<"1">>)
    /\ Len(members) >= 1
    /\ resp.status = "redirect"
    /\ resp.location = LoginWithNext("class", req.args.id)

RowSet(q) == {q[i] : i \in 1..Len(q)}

OrderedByName(q) ==
    /\ Cardinality(RowSet(q)) = Len(q)
    /\ \A i \in 1..(Len(q) - 1) : TextLE(classes[q[i]].name, classes[q[i + 1]].name)

LinkedTo(c) == {i \in 1..Len(classes) : classes[i].category_fk = Some(c)}

\* C7: when the slug is that of a Category with at least one class linked
\* through category_fk, the page lists exactly the classes linked to it,
\* ordered by name; a class that matches by its legacy text only is left out.
C7_LinkedClasses ==
    (req.handler = "classes_by_category" /\ resp.status = "render") =>
        \A c \in 1..Len(categories) :
            (categories[c].slug = req.args.slug /\ LinkedTo(c) # {}) =>
                (RowSet(resp.rows) = LinkedTo(c) /\ OrderedByName(resp.rows))

\* a linked class is listed, a class whose legacy text is the category's name is not
C7_Witness ==
    /\ req.handler = "classes_by_category"
    /\ resp.status = "render"
    /\ \E c \in 1..Len(categories) :
           /\ categories[c].slug = req.args.slug
           /\ LinkedTo(c) # {}
           /\ \E i \in 1..Len(classes) :
                  /\ classes[i].category_fk = NoneVal
                  /\ classes[i].category # NoneVal
                  /\ IExact(classes[i].category[1], categories[c].name)
                  /\ i \notin RowSet(resp.rows)
    /\ resp.rows # <<>>

HasKeyword(i, slug) ==
    \E kw \in Keywords(slug) :
        \/ IContains(classes[i].name, kw)
        \/ (classes[i].category # NoneVal /\ IContains(classes[i].category[1], kw))

\* C8: when no Category has the slug, the page lists exactly the classes
\* whose name or legacy category text contains, ignoring case, at least one
\* of the keywords the slug splits into at its hyphens, each once, ordered by
\* name; this for every slug of the route, a slug of hyphens only included.
C8_KeywordSearch ==
    (/\ req.handler = "classes_by_category"
     /\ resp.status = "render"
     /\ \A c \in 1..Len(categories) : categories[c].slug # req.args.slug)
    => /\ RowSet(resp.rows) = {i \in 1..Len(classes) : HasKeyword(i, req.args.slug)}
       /\ OrderedByName(resp.rows)

EmailTaken(store, f) ==
    \E i \in MemberIds(store) : IExact(store[i].email, Strip(f.email))

UsernameTaken(store, f) ==
    \E i \in MemberIds(store) : IExact(store[i].username, Strip(f.username))

IsRegistration == req.handler = "registration_view" /\ req.method = "POST"

Rejected(r) == r.status = "render" /\ r.template = "registration.html" /\ r.errors # {}

\* C9: after any sequence of registrations no two Member rows have emails
\* equal ignoring case and every stored email is lower-cased; a registration
\* whose email equals an existing member's ignoring case is rejected and
\* leaves the store as it was.
C9_UniqueEmail ==
    [][/\ \A i, j \in MemberIds(members') :
              i # j => ~IExact(members'[i].email, members'[j].email)
       /\ \A i \in MemberIds(members') : members'[i].email = Lower(members'[i].email)
       /\ (IsRegistration' /\ EmailTaken(members, req'.args)) =>
              (Rejected(resp') /\ members' = members)]_vars

\* the address of a member, typed in capitals, was refused
C9_Witness ==
    /\ IsRegistration
    /\ EmailTaken(members, req.args)
    /\ \A i \in MemberIds(members) : members[i].email # Strip(req.args.email)
    /\ ~UsernameTaken(members, req.args)
    /\ Strip(req.args.username) # <<>>
    /\ req.args.password1 = req.args.password2
    /\ Rejected(resp)

ValidSubmission(store, f) ==
    /\ Strip(f.username) # <<>>
    /\ ~UsernameTaken(store, f)
    /\ Strip(f.full_name) # <<>>
    /\ IsEmail(Strip(f.email))
    /\ ~EmailTaken(store, f)
    /\ f.password1 # ""
    /\ f.password1 = f.password2

\* C10: a registration whose username equals an existing member's ignoring
\* case, or whose two passwords differ, is rejected: the form is rendered
\* again with the error, no Member is created, no redirect is made.  A
\* submission that changes the store is valid, adds exactly one Member and
\* redirects to the login page, and every valid submission does so.
C10_RejectedRegistration ==
    [][IsRegistration' =>
          /\ (UsernameTaken(members, req'.args) \/ req'.args.password1 # req'.args.password2)
                 => (Rejected(resp') /\ members' = members)
          /\ (members' # members \/ resp'.status = "redirect" \/ ValidSubmission(members, req'.args))
                 => /\ ValidSubmission(members, req'.args)
                    /\ Len(members') = Len(members) + 1
                    /\ SubSeq(members', 1, Len(members)) = members
                    /\ resp'.status = "redirect"
                    /\ resp'.location = RoutePath("signup")]_vars

\* a username differing from a member's in case only was refused
C10_Witness ==
    /\ IsRegistration
    /\ UsernameTaken(members, req.args)
    /\ \A i \in MemberIds(members) : members[i].username # Strip(req.args.username)
    /\ ~EmailTaken(members, req.args)
    /\ IsEmail(Strip(req.args.email))
    /\ req.args.password1 = req.args.password2
    /\ Rejected(resp)

(***************************************************************************)
(* Payments.                                                               *)
(***************************************************************************)
IsPayment(h) == h \in {"book_class_payment", "book_plan_payment"}

\* the price of a class or a plan as a number
PriceOf(kind, id) ==
    IF kind = "class" THEN classes[id].price ELSE to_python(SitePlans[id].price).value

\* C11: every UpiPayment row a payment handler creates references the member
\* resolved for the submitting request; a class payment sets the class of the
\* URL and leaves plan empty, a plan payment sets the plan of the URL and
\* leaves class empty; the amount of the row equals the price of that class
\* or plan.
C11_PaymentShape ==
    [][Len(payments') > Len(payments)
       => LET p == payments'[Len(payments')]
              id == req'.args.id
          IN  /\ IsPayment(req'.handler)
              /\ Some(p.member) = CurrentMember(members, cookie).member
              /\ req'.handler = "book_class_payment"
                 => /\ p.fitness_class = Some(id)
                    /\ p.plan = NoneVal
                    /\ p.amount = PriceOf("class", id)
              /\ req'.handler = "book_plan_payment"
                 => /\ p.plan = Some(id)
                    /\ p.fitness_class = NoneVal
                    /\ p.amount = PriceOf("plan", id)]_vars

\* a payment submission: a POST carrying a reference string, for a class or
\* plan that exists
IsSubmission(r) ==
    /\ IsPayment(r.handler)
    /\ r.method = "POST"
    /\ r.args.upi_ref # NoneVal
    /\ r.args.id \in 1..(IF r.handler = "book_class_payment" THEN Len(classes)
                         ELSE Len(SitePlans))

\* C12: a payment submitted by an authenticated member is persisted, with
\* confirmed = FALSE; no member-facing request changes the confirmed flag
\* of a row: it changes only by the administrator's action in the console.
C12_UnconfirmedUntilAdmin ==
    [][/\ (IsSubmission(req') /\ CookieNamesMember)
          => /\ Len(payments') = Len(payments) + 1
             /\ ~payments'[Len(payments')].confirmed
       /\ Len(payments') > Len(payments) => ~payments'[Len(payments')].confirmed
       /\ Len(payments') >= Len(payments)
       /\ \A i \in 1..Len(payments) :
             payments'[i].confirmed # payments[i].confirmed
             => req'.handler = "UpiPaymentAdmin"]_vars

(***************************************************************************)
(* The booking flow.                                                       *)
(***************************************************************************)
BookingUrl(kind, id) == <<"/", "book", "/", kind, "/">> \o IntToText(id) \o <<"/">>

PaymentKind(h) == IF h = "book_class_payment" THEN "class" ELSE "plan"

\* the response to a login request reports a successful login
LoginSucceeded(r, out) ==
    \/ out.cookie_op = "set"
    \/ authenticate(Strip(r.args.username), r.args.password) # NoneVal

\* C13: a visitor with no member identity who requests the payment page of
\* class or plan X is redirected to the login route with next = the relative
\* path of X, and a successful login posted to that login URL, as a member
\* or as an administrator, answers with a redirect to the booking page of X.
C13_BookingFlow ==
    [][(/\ IsPayment(req.handler)
        /\ ~CookieNamesMember
        /\ req'.handler \in {"member_login_view", "login_view"}
        /\ req'.method = "POST"
        /\ req'.args.get_next = QueryNext(resp.location)
        /\ LoginSucceeded(req', resp'))
       => /\ resp.status = "redirect"
          /\ resp.location = LoginWithNext(PaymentKind(req.handler), req.args.id)
          /\ ~IsAbsolute(QueryNext(resp.location))
          /\ resp'.status = "redirect"
          /\ resp'.location = BookingUrl(PaymentKind(req.handler), req.args.id)]_vars

(***************************************************************************)
(* The legacy fallback of classes_by_category.                             *)
(***************************************************************************)
NamedLike(c) ==
    {i \in 1..Len(classes) :
        /\ classes[i].category # NoneVal
        /\ Lower(classes[i].category[1]) = Lower(categories[c].name)}

\* C14: when the slug is that of a Category with no class linked through
\* category_fk, the page lists exactly the classes whose legacy category text
\* equals the Category's name ignoring case (the whole text, not a part of
\* it), ordered by name; the keyword search is not used for such a slug,
\* also when no class has that text.
C14_LegacyFallback ==
    (req.handler = "classes_by_category" /\ resp.status = "render") =>
        \A c \in 1..Len(categories) :
            (categories[c].slug = req.args.slug /\ LinkedTo(c) = {}) =>
                (RowSet(resp.rows) = NamedLike(c) /\ OrderedByName(resp.rows))

\* no class is linked or named like the category, one contains the slug's
\* keyword in its name or legacy text, and the page lists nothing
C14_Witness ==
    /\ req.handler = "classes_by_category"
    /\ resp.status = "render"
    /\ resp.rows = <<>>
    /\ \E c \in 1..Len(categories) :
           /\ categories[c].slug = req.args.slug
           /\ LinkedTo(c) = {}
           /\ NamedLike(c) = {}
    /\ \E i \in 1..Len(classes) : HasKeyword(i, req.args.slug)

(***************************************************************************)
(* The profile page.                                                       *)
(***************************************************************************)
\* the members whose e-mail address is that of the session's user
EmailSharing ==
    IF session = NoneVal THEN {}
    ELSE {i \in MemberIds(members) : members[i].email = AuthUsers[session[1]].email}

IsStaffSession == session # NoneVal /\ AuthUsers[session[1]].is_staff

\* the member the cookie of the request names, <<>> when it names none
CookieMember ==
    IF CookieNamesMember THEN Some(ParseInt(cookie[1].val).value) ELSE NoneVal

\* C15: with a session of a non-staff user whose e-mail address a Member
\* has, profile_view shows that Member, whatever member the cookie names;
\* with a staff session, or no session, or no Member of that address, it
\* shows exactly the member the cookie resolves to, and no member when the
\* cookie resolves to none.
C15_ProfileMember ==
    req.handler = "profile_view" =>
        /\ (~IsStaffSession /\ EmailSharing # {})
           => /\ resp.status = "render"
              /\ resp.member # NoneVal
              /\ resp.member[1] \in EmailSharing
        /\ (IsStaffSession \/ EmailSharing = {}) => resp.member = CookieMember
        /\ (session # NoneVal /\ CookieMember = NoneVal
              /\ (IsStaffSession \/ EmailSharing = {}))
           => (resp.member = NoneVal /\ resp.status # "render")

\* a non-staff session whose user shares the address of one member, a cookie
\* naming another member: the page shows the former
C15_Witness ==
    /\ req.handler = "profile_view"
    /\ session # NoneVal
    /\ ~IsStaffSession
    /\ EmailSharing # {}
    /\ CookieMember # NoneVal
    /\ CookieMember[1] \notin EmailSharing
    /\ resp.status = "render"
    /\ resp.member[1] \in EmailSharing

\* C16: a profile request for which no member is resolved is answered with
\* a redirect to a login route of the URL configuration, never with an error.
C16_ProfileRedirectsToLogin ==
    (req.handler = "profile_view" /\ resp.member = NoneVal)
    => /\ resp.status = "redirect"
       /\ resp.location \in {RoutePath("signup"), RoutePath("staff_login")}

(***************************************************************************)
(* The three resolvers.                                                    *)
(***************************************************************************)
IsResolver(h) == h \in {"MemberAuthMiddleware", "get_current_member", "current_member"}

\* C17: on one request (one store, one cookie: absent, forged, signed but
\* malformed, signed for an id of no row, signed for a member) the member
\* the middleware attaches, the member get_current_member returns and the
\* site_member the context processor exposes are the same member, or all
\* three are none, and none of them raises.
C17_ResolversAgree ==
    IsResolver(req.handler) =>
        /\ resp.status = "resolved"
        /\ resp.member = MemberAuthMiddleware(members, cookie).member
        /\ resp.member = CurrentMember(members, cookie).member
        /\ resp.member = get_current_member(members, cookie, NoneVal).member
        /\ resp.member = SiteMember(members, cookie).member
        /\ MemberAuthMiddleware(members, cookie).exc = ""
        /\ CurrentMember(members, cookie).exc = ""
        /\ SiteMember(members, cookie).exc = ""

\* the context processor exposed the member of a valid cookie
C17_Witness ==
    /\ req.handler = "current_member"
    /\ CookieNamesMember
    /\ resp.status = "resolved"
    /\ resp.member = Some(ParseInt(cookie[1].val).value)

(***************************************************************************)
(* Logging in by username.                                                 *)
(***************************************************************************)
\* the login request carries member m's username, in any letter case, and
\* m's password, and is not a login of an administrator
OwnCredentials(r, m) ==
    /\ r.handler \in {"login_view", "member_login_view"}
    /\ r.method = "POST"
    /\ Lower(r.args.username) = Lower(members[m].username)
    /\ members[m].password = make_password(r.args.password)
    /\ \A u \in 1..Len(AuthUsers) :
          ~(/\ AuthUsers[u].username = r.args.username
            /\ AuthUsers[u].password = make_password(r.args.password))

\* C18: a login with a registered member's own username and password sets
\* the cookie for that member, whatever other members the store holds.
C18_MemberCanLogIn ==
    [][\A m \in MemberIds(members) :
          OwnCredentials(req', m)
          => /\ resp'.cookie_op = "set"
             /\ resp'.member = Some(m)
             /\ cookie' = SignedCookie(IntToText(m))]_vars

(***************************************************************************)
(* Concurrent registrations.                                               *)
(***************************************************************************)
\* C19: whatever the interleaving of the validations and the inserts of
\* concurrent registration requests, no two Member rows have usernames that
\* are equal ignoring case.
C19_NoCaseDuplicates ==
    \A i \in MemberIds(members), j \in MemberIds(members) :
        i # j => Lower(members[i].username) # Lower(members[j].username)

(***************************************************************************)
(* Logout and the cookie issued before it.                                 *)
(***************************************************************************)
\* C20: after a member logout, a request that presents the member_auth
\* cookie issued before the logout is served as a request of no member: a
\* payment page requested with it answers with the redirect to the login
\* route and writes no payment.
C20_LogoutRevokesCookie ==
    [][(req.handler = "ReplayCookie" /\ IsPayment(req'.handler))
       => /\ resp'.status = "redirect"
          /\ resp'.location = LoginWithNext(PaymentKind(req'.handler), req'.args.id)
          /\ payments' = payments]_vars

(***************************************************************************)
(* URL dispatch (cfitness_backend/urls.py, mainapp/urls.py).  A request    *)
(* path is text: "/" tokens and, between them, segments of one or more     *)
(* tokens.  A route is the text of path(): literal tokens and at most one  *)
(* path converter.                                                         *)
(***************************************************************************)
Route(route, view, name) == [route |-> route, view |-> view, name |-> name]

\* mainapp.urls.urlpatterns, in the order of declaration
urlpatterns ==
    <<Route(<<>>, "home_view", "home"),
      Route(<<"about", "/">>, "about_view", "about"),
      Route(<<"classes", "/">>, "classes_landing", "classes"),
      Route(<<"classes", "/", "<slug:slug>", "/">>, "classes_by_category",
            "classes_by_category"),
      Route(<<"classes", "/", "all", "/">>, "class_list", "classes_all"),
      Route(<<"equipment", "/">>, "equipment_view", "equipment"),
      Route(<<"features", "/">>, "features_view", "features"),
      Route(<<"gallery", "/">>, "gallery_view", "gallery"),
      Route(<<"price", "/">>, "plans_view", "price"),
      Route(<<"testimonial", "/">>, "testimonial_view", "testimonial"),
      Route(<<"contact", "/">>, "contact_view", "contact"),
      Route(<<"signup", "/">>, "member_login_view", "signup"),
      Route(<<"register", "/">>, "register_view", "register"),
      Route(<<"logout", "/">>, "member_logout_view", "logout"),
      Route(<<"member-logout", "/">>, "member_logout_view", "member_logout"),
      Route(<<"profile", "/">>, "profile_view", "profile"),
      Route(<<"book", "/", "<int:plan_id>", "/">>, "book_plan_view", "book_plan"),
      Route(<<"registration", "/">>, "registration_view", "plan_registration"),
      Route(<<"staff-login", "/">>, "login_view", "staff_login"),
      Route(<<"book", "/", "class", "/", "<int:class_id>", "/">>, "book_class_payment",
            "book_class_payment"),
      Route(<<"book", "/", "plan", "/", "<int:plan_id>", "/">>, "book_plan_payment",
            "book_plan_payment"),
      Route(<<"create-temp-superuser", "/">>, "create_temp_superuser", "")>>

\* the functions mainapp/views.py defines and a route may name
ViewNames ==
    {"home_view", "about_view", "class_list", "gallery_view", "contact_view",
     "equipment_view", "features_view", "plans_view", "testimonial_view",
     "book_plan_view", "registration_view", "login_view", "member_login_view",
     "logout_view", "member_logout_view", "profile_view", "classes_landing",
     "classes_by_category", "book_class_payment", "book_plan_payment",
     "create_temp_superuser"}

SlugConverters == {"<slug:slug>"}
IntConverters == {"<int:plan_id>", "<int:class_id>"}

\* SlugConverter.regex [-a-zA-Z0-9_]+ and IntConverter.regex [0-9]+, token by token
IsSlugTok(t) == t \notin (SpecialToks \ {"-"})

Accepts(converter, t) == IF converter \in IntConverters THEN IsDigit(t) ELSE IsSlugTok(t)

\* the place of the converter in a route, 0 when the route is literal
ConverterAt(route) ==
    LET at == {i \in 1..Len(route) : route[i] \in SlugConverters \cup IntConverters}
    IN  IF at = {} THEN 0 ELSE CHOOSE i \in at : TRUE

\* the part of the path the converter of the route takes
Captured(route, path) ==
    LET k == ConverterAt(route)
    IN  IF k = 0 THEN <<>> ELSE SubSeq(path, k, Len(path) - (Len(route) - k))

\* RoutePattern.match on the whole of the path left to match: the literal
\* text before and after the converter as written, and the converter's
\* pattern on one or more tokens between them
MatchRoute(route, path) ==
    LET k == ConverterAt(route)
        got == Captured(route, path)
    IN  IF k = 0 THEN path = route
        ELSE /\ Len(path) > Len(route) - 1
             /\ SubSeq(path, 1, k - 1) = SubSeq(route, 1, k - 1)
             /\ SubSeq(path, Len(path) - (Len(route) - k) + 1, Len(path))
                    = SubSeq(route, k + 1, Len(route))
             /\ got # <<>>
             /\ \A i \in 1..Len(got) : Accepts(route[k], got[i])

NotFound == [view |-> "", kwargs |-> <<>>]

\* URLResolver.resolve for the root URLconf, on the path without its first
\* "/": admin/ first, then the patterns of mainapp.urls, the first route
\* that matches; [view, kwargs]
resolve(path) ==
    LET hits == {i \in 1..Len(urlpatterns) : MatchRoute(urlpatterns[i].route, path)}
    IN  IF StartsWith(path, <<"admin", "/">>) THEN [view |-> "admin.site.urls", kwargs |-> <<>>]
        ELSE IF hits = {} THEN NotFound
        ELSE LET i == CHOOSE h \in hits : \A g \in hits : h <= g
             IN  [view |-> urlpatterns[i].view, kwargs |-> Captured(urlpatterns[i].route, path)]

\* The handling of a request up to the call of its view: the resolver, the
\* redirect of CommonMiddleware (APPEND_SLASH) for a path that resolves
\* only with a "/" added, the 404 for a path of no route.  The route
\* register/ names views.register_view, which views.py does not define
\* (AttributeError): no request reaches a view through it.  [view, kwargs,
\* response]
get_response(path) ==
    LET hit == resolve(Tail(path))
        slashed == resolve(Tail(path) \o <<"/">>)
    IN  IF hit = NotFound
        THEN IF path[Len(path)] # "/" /\ slashed # NotFound
             THEN [view |-> "", kwargs |-> <<>>,
                   response |-> Response("redirect", path \o <<"/">>, "", {})]
             ELSE [view |-> "", kwargs |-> <<>>,
                   response |-> Response("not_found", <<>>, "", {})]
        ELSE IF hit.view \notin ViewNames \cup {"admin.site.urls"}
        THEN [view |-> "", kwargs |-> <<>>,
              response |-> Response("error", <<>>, "", {"AttributeError"})]
        ELSE [view |-> hit.view, kwargs |-> hit.kwargs,
              response |-> Response("view", <<>>, "", {})]

\* the first segment of a request path, and the segments after it
FirstSegments ==
    {<<urlpatterns[i].route[1]>> : i \in 2..Len(urlpatterns)} \cup {<<"admin">>, <<"x">>}

NextSegments == {<<"all">>, <<"class">>, <<"plan">>, <<"1">>, <<"a", "-", "1">>, <<".">>}

RECURSIVE SegmentPaths(_)
SegmentPaths(n) ==
    IF n = 0 THEN {<<>>}
    ELSE IF n = 1 THEN {<<"/">> \o f : f \in FirstSegments}
    ELSE {p \o <<"/">> \o g : p \in SegmentPaths(n - 1), g \in NextSegments}

\* the request paths of the model: up to MaxSegments segments, with and
\* without the "/" at the end
Paths ==
    LET open == UNION {SegmentPaths(n) : n \in 1..MaxSegments}
    IN  {<<"/">>} \cup open \cup {p \o <<"/">> : p \in open}

InitUrl ==
    /\ req \in {Request("", "GET", [path |-> p, kwargs |-> <<>>]) : p \in Paths}
    /\ resp = NoResponse
    /\ members = <<>>
    /\ session = NoneVal
    /\ cookie = NoCookie
    /\ payments = <<>>
    /\ inflight = <<>>
    /\ issued = {}
    /\ categories = <<>>
    /\ classes = SiteClasses

\* the request is dispatched: req becomes the call of the view
Dispatch ==
    /\ resp = NoResponse
    /\ \E out \in {get_response(req.args.path)} :
          /\ req' = Request(out.view, "GET", [path |-> req.args.path, kwargs |-> out.kwargs])
          /\ resp' = out.response
    /\ UNCHANGED <<members, session, cookie, payments, categories, classes, inflight, issued>>

NextUrl == Dispatch

SpecUrl == InitUrl /\ [][NextUrl]_vars

\* the view a path is delivered to, "" when it is delivered to none
ViewOf(p) == get_response(p).view

\* C21: a request for classes/all/ is delivered to class_list, not to
\* classes_by_category with the slug "all", and every route of mainapp.urls
\* has a path that is delivered to the view the route names.
C21_DispatchReachesEveryRoute ==
    /\ (req.args.path = <<"/", "classes", "/", "all", "/">> /\ resp.status # "none")
       => (req.handler = "class_list" /\ resp.status = "view")
    /\ resp.status = "view"
       => \A i \in 1..Len(urlpatterns) :
             \E p \in Paths :
                /\ MatchRoute(urlpatterns[i].route, Tail(p))
                /\ ViewOf(p) = urlpatterns[i].view

====
